---- MODULE Spec2Model ----
(***************************************************************************)
(* uGram user core: the User entity (domain/users/entities.py), the        *)
(* UserService (domain/users/services.py), the SQLAlchemy repository and   *)
(* the per-request database session (adapters/outbound/persistence).       *)
(*                                                                         *)
(* Strings are sequences of one-character strings, so that the regular     *)
(* expressions and the length checks of the entity are computed, not       *)
(* assumed.  Python's None is the value None below.                        *)
(***************************************************************************)
EXTENDS Naturals, Integers, Sequences, FiniteSets, TLC

VARIABLES
    users,   \* committed rows of the "users" table (a set of rows)
    clock,   \* the instant the time provider returns
    req,     \* the last call made (service call or entity call)
    resp,    \* its outcome
    prev,    \* what the call found: the committed rows (or the instance) before it
    ent,     \* one in-memory User instance (entity-level specification)
    procs    \* concurrent requests: per request its position, session and outcome

vars == <<users, clock, req, resp, prev, ent, procs>>

----------------------------------------------------------------------------
(* Bounds of the model *)

MaxUsers == 2
MaxClock == 1
NumProcs == 2

----------------------------------------------------------------------------
(* Strings *)

None == <<"None">>

NL == "\n"

Lower == {"a", "b", "c", "d", "e", "f", "g", "h", "i", "j", "k", "l", "m",
          "n", "o", "p", "q", "r", "s", "t", "u", "v", "w", "x", "y", "z"}
Upper == {"A", "B", "C", "D", "E", "F", "G", "H", "I", "J", "K", "L", "M",
          "N", "O", "P", "Q", "R", "S", "T", "U", "V", "W", "X", "Y", "Z"}
Letter == Lower \cup Upper
Digit == {"0", "1", "2", "3", "4", "5", "6", "7", "8", "9"}

\* Python truthiness of an optional string: None and "" are falsy.
Truthy(s) == s # None /\ s # <<>>

AllIn(s, class) == \A i \in 1..Len(s) : s[i] \in class

RECURSIVE Rep(_, _)
Rep(c, n) == IF n = 0 THEN <<>> ELSE <<c>> \o Rep(c, n - 1)

\* Python's "$" matches at the end of the string and also just before a
\* newline that ends the string: the texts a pattern "^...$" may cover.
DollarBodies(s) ==
    {s} \cup (IF Len(s) > 0 /\ s[Len(s)] = NL THEN {SubSeq(s, 1, Len(s) - 1)} ELSE {})

\* re.match(r"^[a-zA-Z0-9_]+$", s)
UsernameChar == Letter \cup Digit \cup {"_"}
USERNAME_REGEX(s) ==
    \E b \in DollarBodies(s) : Len(b) >= 1 /\ AllIn(b, UsernameChar)

\* _EMAIL_REGEX = ^[a-zA-Z0-9._%+-]+@[a-zA-Z0-9.-]+\.[a-zA-Z]{2,}$
EmailLocalChar == Letter \cup Digit \cup {".", "_", "%", "+", "-"}
EmailDomainChar == Letter \cup Digit \cup {".", "-"}
_EMAIL_REGEX(s) ==
    \E b \in DollarBodies(s) :
        \E at \in 2..Len(b) :
            /\ b[at] = "@"
            /\ AllIn(SubSeq(b, 1, at - 1), EmailLocalChar)
            /\ \E dot \in (at + 2)..(Len(b) - 2) :
                /\ b[dot] = "."
                /\ AllIn(SubSeq(b, at + 1, dot - 1), EmailDomainChar)
                /\ AllIn(SubSeq(b, dot + 1, Len(b)), Letter)

\* _PHONE_REGEX = ^\+?[1-9]\d{1,14}$
_PHONE_REGEX(s) ==
    \E b \in DollarBodies(s) :
        \E r \in {b} \cup (IF Len(b) > 0 /\ b[1] = "+" THEN {Tail(b)} ELSE {}) :
            /\ Len(r) >= 2
            /\ Len(r) <= 15
            /\ r[1] \in Digit \ {"0"}
            /\ AllIn(Tail(r), Digit)

----------------------------------------------------------------------------
(* User entity: validation.  A validator yields NoError or the message of  *)
(* the ValueError it raises.                                               *)

NoError == "ok"

_validate_username(user) ==
    IF ~Truthy(user.username) THEN "Username cannot be empty"
    ELSE IF Len(user.username) < 3 THEN "Username must be at least 3 characters long"
    ELSE IF Len(user.username) > 50 THEN "Username must not exceed 50 characters"
    ELSE IF ~USERNAME_REGEX(user.username)
         THEN "Username can only contain letters, numbers, and underscores"
    ELSE NoError

_validate_email(user) ==
    IF ~Truthy(user.email) THEN "Email cannot be empty"
    ELSE IF ~_EMAIL_REGEX(user.email) THEN "Invalid email format"
    ELSE IF Len(user.email) > 100 THEN "Email must not exceed 100 characters"
    ELSE NoError

_validate_phone_number(user) ==
    IF Truthy(user.phone_number) /\ ~_PHONE_REGEX(user.phone_number)
    THEN "Invalid phone number format"
    ELSE NoError

\* User.__post_init__: the first failing check raises.
post_init(user) ==
    IF _validate_username(user) # NoError THEN _validate_username(user)
    ELSE IF _validate_email(user) # NoError THEN _validate_email(user)
    ELSE IF Truthy(user.phone_number) THEN _validate_phone_number(user)
    ELSE NoError

----------------------------------------------------------------------------
(* User entity: construction and mutation.  An operation that can raise    *)
(* yields the object as the call leaves it and the error (NoError if none).*)

\* The dataclass constructor: the fields, then __post_init__.
User(id, username, email, first_name, last_name, registration_date, phone_number, profile_photo_url) ==
    LET u == [id |-> id, username |-> username, email |-> email,
              first_name |-> first_name, last_name |-> last_name,
              registration_date |-> registration_date,
              phone_number |-> phone_number,
              profile_photo_url |-> profile_photo_url]
    IN  [user |-> u, err |-> post_init(u)]

\* Mutant of create_new: the registration date is not read from the clock.
create_new_epoch(uuid, now, username, email, first_name, last_name, phone_number, profile_photo_url) ==
    User(uuid, username, email, first_name, last_name, 0, phone_number,
         profile_photo_url)

\* User.create_new: uuid is what uuid4() returned, now what time_provider.now() did.
create_new(uuid, now, username, email, first_name, last_name, phone_number, profile_photo_url) ==
    User(uuid, username, email, first_name, last_name, now, phone_number,
         profile_photo_url)

\* Mutant of update_profile: last_name is assigned without the "is not None" test.
update_profile_assign_all(user, first_name, last_name, email, phone_number) ==
    LET u1 == IF first_name # None THEN [user EXCEPT !.first_name = first_name] ELSE user
        u2 == [u1 EXCEPT !.last_name = last_name]
        u3 == IF email # None THEN [u2 EXCEPT !.email = email] ELSE u2
        e3 == IF email # None THEN _validate_email(u3) ELSE NoError
        u4 == IF phone_number # None THEN [u3 EXCEPT !.phone_number = phone_number] ELSE u3
        e4 == IF phone_number # None THEN _validate_phone_number(u4) ELSE NoError
    IN  IF e3 # NoError THEN [user |-> u3, err |-> e3]
        ELSE [user |-> u4, err |-> e4]

\* User.update_profile: each supplied field is assigned in turn, the email and
\* the phone number are validated right after their assignment.
update_profile(user, first_name, last_name, email, phone_number) ==
    LET u1 == IF first_name # None THEN [user EXCEPT !.first_name = first_name] ELSE user
        u2 == IF last_name # None THEN [u1 EXCEPT !.last_name = last_name] ELSE u1
        u3 == IF email # None THEN [u2 EXCEPT !.email = email] ELSE u2
        e3 == IF email # None THEN _validate_email(u3) ELSE NoError
        u4 == IF phone_number # None THEN [u3 EXCEPT !.phone_number = phone_number] ELSE u3
        e4 == IF phone_number # None THEN _validate_phone_number(u4) ELSE NoError
    IN  IF e3 # NoError THEN [user |-> u3, err |-> e3]
        ELSE [user |-> u4, err |-> e4]

\* Mutant of update_profile_photo: None leaves the photo alone, as the other
\* mutators treat it.
update_profile_photo_if_given(user, photo_url) ==
    IF photo_url # None THEN [user EXCEPT !.profile_photo_url = photo_url] ELSE user

\* User.update_profile_photo
update_profile_photo(user, photo_url) ==
    [user EXCEPT !.profile_photo_url = photo_url]

----------------------------------------------------------------------------
(* Inputs *)

S_abc == <<"a", "b", "c">>
S_A_9 == <<"A", "_", "9">>
S_abNL == <<"a", "b", NL>>
S_ab == <<"a", "b">>
S_a_dash_c == <<"a", "-", "c">>

E_a == <<"a", "@", "b", ".", "c", "o">>
E_z == <<"z", "@", "b", ".", "c", "o">>
E_m == <<"m", ".", "n", "@", "b", "-", "c", ".", "o", "r", "g">>
E_notld == <<"a", "@", "b">>
E_tld1 == <<"a", "@", "b", ".", "c">>
E_nolocal == <<"@", "b", ".", "c", "o">>
E_suffix == <<"@", "b", ".", "c", "o">>

P_min == <<"+", "1", "2">>
P_bare == <<"1", "2">>
P_zero == <<"0", "1", "2">>
P_short == <<"+", "1">>
P_alpha == <<"+", "1", "x">>

\* What the sequential specification draws from: the identity fields vary
\* (valid, colliding and malformed usernames and emails), the profile fields
\* take few values.
Usernames == {S_abc, S_A_9, S_abNL, S_a_dash_c}
Emails == {E_a, E_z, E_m, E_notld, <<>>}
FirstNames == {<<"A">>}
LastNames == {<<"X">>}
Phones == {None, P_zero}
Photos == {None}
NewFirstNames == {None, <<"B">>}
NewLastNames == {None}
NewEmails == Emails \cup {None}
NewPhones == {None, P_zero}

\* What the profile specification draws from: one account, the profile fields
\* vary (absent, empty, valid and malformed values).
ProfileUsernames == {S_abc}
ProfileEmails == {E_a, E_z, E_notld}
ProfileFirstNames == {<<"A">>, <<"B">>}
ProfileLastNames == {<<"X">>, <<"Y">>}
ProfilePhones == {None, <<>>, P_min, P_zero}
ProfilePhotos == {None, <<"p">>}

\* What the entity specification draws from.
EntityUsernames == {S_abc, S_ab}
EntityEmails == {E_a, E_a \o <<NL>>, E_notld, <<>>}
EntityPhones == {None, <<>>, P_min, P_zero, P_min \o <<NL>>}

\* Every rule's boundary.
BoundaryUsernames ==
    {S_abc, S_A_9, S_abNL, S_ab, S_a_dash_c, <<>>, Rep("a", 50), Rep("a", 51)}
BoundaryEmails ==
    {E_a, E_a \o <<NL>>, E_notld, E_tld1, E_nolocal, <<>>,
     Rep("a", 95) \o E_suffix, Rep("a", 96) \o E_suffix}
BoundaryPhones ==
    {None, <<>>, P_min, P_bare, P_zero, P_short, P_alpha, P_min \o <<NL>>,
     <<"+">> \o Rep("1", 15), <<"+">> \o Rep("1", 16)}

----------------------------------------------------------------------------
(* Initial values *)

NoReq == [op |-> "none"]
NoResp == [status |-> "none"]
NoEntity == [id |-> 0]
Idle == [pc |-> "idle", req |-> NoReq, row |-> NoEntity, resp |-> NoResp]

InitCommon ==
    /\ users = {}
    /\ clock = 0
    /\ req = NoReq
    /\ resp = NoResp
    /\ prev = {}
    /\ ent = NoEntity
    /\ procs = [p \in 1..NumProcs |-> Idle]

\* The call has returned to its caller: the next one can be made.
Respond ==
    /\ req # NoReq
    /\ req' = NoReq
    /\ resp' = NoResp
    /\ prev' = {}
    /\ UNCHANGED <<users, clock, ent, procs>>

\* The clock port: time passes between calls.
Tick ==
    /\ req = NoReq
    /\ clock < MaxClock
    /\ clock' = clock + 1
    /\ UNCHANGED <<users, req, resp, prev, ent, procs>>

----------------------------------------------------------------------------
(* Entity-level specification: one User instance and the calls made on it. *)

EntCreateNew ==
    /\ req = NoReq
    /\ \E username \in EntityUsernames, email \in EntityEmails,
       first_name \in ProfileFirstNames, last_name \in {<<"X">>},
       phone_number \in EntityPhones, profile_photo_url \in {None} :
        LET r == create_new(1, clock, username, email, first_name, last_name,
                            phone_number, profile_photo_url)
        IN  /\ req' = [op |-> "create_new", username |-> username, email |-> email,
                       first_name |-> first_name, last_name |-> last_name,
                       phone_number |-> phone_number,
                       profile_photo_url |-> profile_photo_url]
            /\ resp' = [status |-> IF r.err = NoError THEN "ok" ELSE "ValueError",
                        msg |-> r.err]
            \* a constructor that raises yields no instance
            /\ ent' = IF r.err = NoError THEN r.user ELSE ent
            /\ prev' = {ent}
            /\ UNCHANGED <<users, clock, procs>>

EntUpdateProfile ==
    /\ req = NoReq
    /\ ent # NoEntity
    /\ \E first_name \in ProfileFirstNames \cup {None}, last_name \in {None, <<"Y">>},
          email \in EntityEmails \cup {None}, phone_number \in EntityPhones :
        LET r == update_profile(ent, first_name, last_name, email, phone_number)
        IN  /\ req' = [op |-> "update_profile", first_name |-> first_name,
                       last_name |-> last_name, email |-> email,
                       phone_number |-> phone_number]
            /\ resp' = [status |-> IF r.err = NoError THEN "ok" ELSE "ValueError",
                        msg |-> r.err]
            \* the caller's object is mutated in place, whether or not it raised
            /\ ent' = r.user
            /\ prev' = {ent}
            /\ UNCHANGED <<users, clock, procs>>

EntUpdateProfilePhoto ==
    /\ req = NoReq
    /\ ent # NoEntity
    /\ \E photo_url \in ProfilePhotos :
        /\ req' = [op |-> "update_profile_photo", photo_url |-> photo_url]
        /\ resp' = [status |-> "ok", msg |-> NoError]
        /\ ent' = update_profile_photo(ent, photo_url)
        /\ prev' = {ent}
        /\ UNCHANGED <<users, clock, procs>>

----------------------------------------------------------------------------
(* Validation specification: the constructor on inputs at and around every *)
(* rule's boundary.                                                        *)

ConstructUser ==
    /\ req = NoReq
    /\ \E username \in BoundaryUsernames, email \in BoundaryEmails,
          phone_number \in BoundaryPhones :
        LET r == User(1, username, email, <<"A">>, <<"X">>, clock, phone_number, None)
        IN  /\ req' = [op |-> "User", username |-> username, email |-> email,
                       phone_number |-> phone_number]
            /\ resp' = [status |-> IF r.err = NoError THEN "ok" ELSE "ValueError",
                        msg |-> r.err]
            \* a constructor that raises yields no instance
            /\ ent' = IF r.err = NoError THEN r.user ELSE ent
            /\ prev' = {ent}
            /\ UNCHANGED <<users, clock, procs>>

InitValidate == InitCommon

NextValidate == ConstructUser \/ Respond

SpecValidate == InitValidate /\ [][NextValidate]_vars

----------------------------------------------------------------------------
(* Persistence: the users table and the repository.  A table is the set of *)
(* rows a session sees.  A repository call yields the table as the call    *)
(* leaves it in the session (flushed, not committed) and what it returned  *)
(* or raised.                                                              *)

Ids == 1..(MaxUsers + 1)

Msg(text, arg) == [text |-> text, arg |-> arg]

Raise(tbl, status, msg) ==
    [status |-> status, msg |-> msg, user |-> NoEntity, tbl |-> tbl]

Return(tbl, user) ==
    [status |-> "ok", msg |-> Msg(NoError, None), user |-> user, tbl |-> tbl]

\* uuid4(): an identifier no row and no request in flight holds.
uuid4(used) == CHOOSE i \in 1..(Cardinality(used) + 1) : i \notin used

\* Mutant of _to_entity: a phone number that is not None must match the
\* pattern, the empty string included.
_to_entity_checks_empty_phone(orm) ==
    LET e == User(orm.id, orm.username, orm.email, orm.first_name, orm.last_name,
                  orm.registration_date, orm.phone_number, orm.profile_photo_url)
    IN  IF e.err = NoError /\ orm.phone_number # None /\ ~_PHONE_REGEX(orm.phone_number)
        THEN [user |-> e.user, err |-> "Invalid phone number format"]
        ELSE e

\* SQLAlchemyUserRepository._to_entity: the constructor validates again.
_to_entity(orm) ==
    User(orm.id, orm.username, orm.email, orm.first_name, orm.last_name,
         orm.registration_date, orm.phone_number, orm.profile_photo_url)

\* SQLAlchemyUserRepository._to_orm
_to_orm(entity) ==
    [id |-> entity.id, username |-> entity.username, email |-> entity.email,
     first_name |-> entity.first_name, last_name |-> entity.last_name,
     registration_date |-> entity.registration_date,
     phone_number |-> entity.phone_number,
     profile_photo_url |-> entity.profile_photo_url]

\* select(UserORM).where(column == value): the matching rows.
get_by_id(tbl, user_id) == {r \in tbl : r.id = user_id}
get_by_username(tbl, username) == {r \in tbl : r.username = username}
get_by_email(tbl, email) == {r \in tbl : r.email = email}

\* .first() of a non-empty result
First(rows) == CHOOSE r \in rows : TRUE

\* UserORM: id is the primary key, username and email are unique columns.
\* The row conflicts with another row of the table.
UniqueViolation(tbl, row) ==
    \E r \in tbl : r.id = row.id \/ r.username = row.username \/ r.email = row.email

\* SQLAlchemyUserRepository.save: add, flush (INSERT), map back.
save(tbl, user) ==
    LET orm == _to_orm(user)
    IN  IF UniqueViolation(tbl, orm)
        THEN Raise(tbl, "IntegrityError", Msg("unique constraint", None))
        ELSE LET back == _to_entity(orm)
             IN  IF back.err # NoError
                 THEN Raise(tbl \cup {orm}, "ValueError", Msg(back.err, None))
                 ELSE Return(tbl \cup {orm}, back.user)

\* Mutant of update: the row is deleted and not written back.
update_drops_row(tbl, user) ==
    IF get_by_id(tbl, user.id) = {}
    THEN Raise(tbl, "ValueError", Msg("User with ID not found", user.id))
    ELSE Return(tbl \ get_by_id(tbl, user.id), user)

\* Mutant of update: a user whose id is not stored is inserted.
update_or_insert(tbl, user) ==
    LET old == get_by_id(tbl, user.id)
        orm == _to_orm(user)
    IN  IF UniqueViolation(tbl \ old, orm)
        THEN Raise(tbl, "IntegrityError", Msg("unique constraint", None))
        ELSE IF _to_entity(orm).err # NoError
        THEN Raise((tbl \ old) \cup {orm}, "ValueError",
                   Msg(_to_entity(orm).err, None))
        ELSE Return((tbl \ old) \cup {orm}, _to_entity(orm).user)

\* SQLAlchemyUserRepository.update: select by id, assign the six columns
\* (registration_date is not written), flush (UPDATE), map back.
update(tbl, user) ==
    IF get_by_id(tbl, user.id) = {}
    THEN Raise(tbl, "ValueError", Msg("User with ID not found", user.id))
    ELSE LET old == First(get_by_id(tbl, user.id))
             orm == [old EXCEPT !.username = user.username,
                                !.email = user.email,
                                !.first_name = user.first_name,
                                !.last_name = user.last_name,
                                !.phone_number = user.phone_number,
                                !.profile_photo_url = user.profile_photo_url]
         IN  IF UniqueViolation(tbl \ {old}, orm)
             THEN Raise(tbl, "IntegrityError", Msg("unique constraint", None))
             ELSE LET back == _to_entity(orm)
                  IN  IF back.err # NoError
                      THEN Raise((tbl \ {old}) \cup {orm}, "ValueError",
                                 Msg(back.err, None))
                      ELSE Return((tbl \ {old}) \cup {orm}, back.user)

\* get_db: commit when the request raised nothing, roll back otherwise.
get_db(committed, out) == IF out.status = "ok" THEN out.tbl ELSE committed

----------------------------------------------------------------------------
(* UserService *)

\* Mutant of create_user: no uniqueness check, and the row is added without
\* the table's unique constraints.
create_user_unchecked(tbl, uuid, now, username, email, first_name, last_name, phone_number, profile_photo_url) ==
    LET made == create_new(uuid, now, username, email, first_name, last_name,
                           phone_number, profile_photo_url)
    IN  IF made.err # NoError
        THEN Raise(tbl, "ValueError", Msg(made.err, None))
        ELSE Return(tbl \cup {_to_orm(made.user)}, made.user)

\* Mutant of create_user: the username lookup is missing.
create_user_no_username_check(tbl, uuid, now, username, email, first_name, last_name, phone_number, profile_photo_url) ==
    LET made == create_new(uuid, now, username, email, first_name, last_name,
                           phone_number, profile_photo_url)
    IN  IF get_by_email(tbl, email) # {}
        THEN Raise(tbl, "UserAlreadyExists", Msg("Email already exists", email))
        ELSE IF made.err # NoError
        THEN Raise(tbl, "ValueError", Msg(made.err, None))
        ELSE save(tbl, made.user)

\* Mutant of create_user: the email lookup is missing.
create_user_no_email_check(tbl, uuid, now, username, email, first_name, last_name, phone_number, profile_photo_url) ==
    LET made == create_new(uuid, now, username, email, first_name, last_name,
                           phone_number, profile_photo_url)
    IN  IF get_by_username(tbl, username) # {}
        THEN Raise(tbl, "UserAlreadyExists", Msg("Username already exists", username))
        ELSE IF made.err # NoError
        THEN Raise(tbl, "ValueError", Msg(made.err, None))
        ELSE save(tbl, made.user)

\* Mutant of create_user: the email is looked up before the username.
create_user_email_first(tbl, uuid, now, username, email, first_name, last_name, phone_number, profile_photo_url) ==
    LET made == create_new(uuid, now, username, email, first_name, last_name,
                           phone_number, profile_photo_url)
    IN  IF get_by_email(tbl, email) # {}
        THEN Raise(tbl, "UserAlreadyExists", Msg("Email already exists", email))
        ELSE IF get_by_username(tbl, username) # {}
        THEN Raise(tbl, "UserAlreadyExists", Msg("Username already exists", username))
        ELSE IF made.err # NoError
        THEN Raise(tbl, "ValueError", Msg(made.err, None))
        ELSE save(tbl, made.user)

\* UserService.create_user
create_user(tbl, uuid, now, username, email, first_name, last_name, phone_number, profile_photo_url) ==
    LET byName == get_by_username(tbl, username)
        byEmail == get_by_email(tbl, email)
        made == create_new(uuid, now, username, email, first_name, last_name,
                           phone_number, profile_photo_url)
    IN  IF byName # {}
        THEN IF _to_entity(First(byName)).err # NoError
             THEN Raise(tbl, "ValueError", Msg(_to_entity(First(byName)).err, None))
             ELSE Raise(tbl, "UserAlreadyExists", Msg("Username already exists", username))
        ELSE IF byEmail # {}
        THEN IF _to_entity(First(byEmail)).err # NoError
             THEN Raise(tbl, "ValueError", Msg(_to_entity(First(byEmail)).err, None))
             ELSE Raise(tbl, "UserAlreadyExists", Msg("Email already exists", email))
        ELSE IF made.err # NoError
        THEN Raise(tbl, "ValueError", Msg(made.err, None))
        ELSE save(tbl, made.user)

\* UserService.get_user
get_user(tbl, user_id) ==
    IF get_by_id(tbl, user_id) = {}
    THEN Raise(tbl, "UserNotFound", Msg("User with ID not found", user_id))
    ELSE LET e == _to_entity(First(get_by_id(tbl, user_id)))
         IN  IF e.err # NoError
             THEN Raise(tbl, "ValueError", Msg(e.err, None))
             ELSE Return(tbl, e.user)

\* Mutant of EmailInUse: any owner of the email is a conflict, the user itself
\* included, whether or not the email changes.
EmailInUse_no_self_check(tbl, user, user_id, email) ==
    IF Truthy(email) /\ get_by_email(tbl, email) # {}
    THEN Raise(tbl, "UserAlreadyExists", Msg("Email already in use", email))
    ELSE Return(tbl, user)

\* Mutant of EmailInUse: the service does not look the new email up.
EmailInUse_unchecked(tbl, user, user_id, email) == Return(tbl, user)

\* The email check of update_user_profile: the error it raises, if any.
EmailInUse(tbl, user, user_id, email) ==
    IF Truthy(email) /\ email # user.email /\ get_by_email(tbl, email) # {}
    THEN LET existing == _to_entity(First(get_by_email(tbl, email)))
         IN  IF existing.err # NoError
             THEN Raise(tbl, "ValueError", Msg(existing.err, None))
             ELSE IF existing.user.id # user_id
             THEN Raise(tbl, "UserAlreadyExists", Msg("Email already in use", email))
             ELSE Return(tbl, user)
    ELSE Return(tbl, user)

\* Mutant of update_user_profile: the entity validates the new values before
\* the email is looked up.
update_user_profile_validate_first(tbl, user_id, first_name, last_name, email, phone_number) ==
    LET got == get_user(tbl, user_id)
    IN  IF got.status # "ok" THEN got
        ELSE LET changed == update_profile(got.user, first_name, last_name, email,
                                           phone_number)
             IN  IF changed.err # NoError
                 THEN Raise(tbl, "ValueError", Msg(changed.err, None))
                 ELSE IF EmailInUse(tbl, got.user, user_id, email).status # "ok"
                 THEN EmailInUse(tbl, got.user, user_id, email)
                 ELSE update(tbl, changed.user)

\* UserService.update_user_profile
update_user_profile(tbl, user_id, first_name, last_name, email, phone_number) ==
    LET got == get_user(tbl, user_id)
    IN  IF got.status # "ok" THEN got
        ELSE IF EmailInUse(tbl, got.user, user_id, email).status # "ok"
        THEN EmailInUse(tbl, got.user, user_id, email)
        ELSE LET changed == update_profile(got.user, first_name, last_name, email,
                                           phone_number)
             IN  IF changed.err # NoError
                 THEN Raise(tbl, "ValueError", Msg(changed.err, None))
                 ELSE update(tbl, changed.user)

----------------------------------------------------------------------------
(* Queries: lookup by username, the paginated list and the count. *)

\* The characters of the inputs, in the order the database compares them.
CodePoints ==
    <<NL, "%", "+", "-", ".", "0", "1", "2", "3", "4", "5", "6", "7", "8", "9", "@",
      "A", "B", "C", "D", "E", "F", "G", "H", "I", "J", "K", "L", "M",
      "N", "O", "P", "Q", "R", "S", "T", "U", "V", "W", "X", "Y", "Z", "_",
      "a", "b", "c", "d", "e", "f", "g", "h", "i", "j", "k", "l", "m",
      "n", "o", "p", "q", "r", "s", "t", "u", "v", "w", "x", "y", "z">>

ord(c) == CHOOSE i \in 1..Len(CodePoints) : CodePoints[i] = c

\* a < b for two strings: equal up to a position where a ends or is smaller.
StrLess(a, b) ==
    \E i \in 1..Len(b) :
        /\ i <= Len(a) + 1
        /\ \A j \in 1..(i - 1) : a[j] = b[j]
        /\ (i = Len(a) + 1 \/ ord(a[i]) < ord(b[i]))

\* ORDER BY username: the rows as a sequence, smallest username first.
RECURSIVE order_by(_)
order_by(rows) ==
    IF rows = {} THEN <<>>
    ELSE LET least == CHOOSE r \in rows :
                          \A q \in rows : ~StrLess(q.username, r.username)
         IN  <<least>> \o order_by(rows \ {least})

Min(a, b) == IF a <= b THEN a ELSE b
Max(a, b) == IF a >= b THEN a ELSE b

\* A result of a query: what it returned or raised, the table as the call
\* leaves it, and whether the repository was asked.
Answer(tbl, status, msg, value, queried) ==
    [status |-> status, msg |-> msg, value |-> value, tbl |-> tbl,
     queried |-> queried]

\* Mutant of list_all: no ORDER BY, the rows come in insertion order.
list_all_by_id(tbl, limit, offset) ==
    LET sorted == [i \in 1..Cardinality(tbl) |->
                      CHOOSE r \in tbl :
                          Cardinality({q \in tbl : q.id < r.id}) = i - 1]
        rows == SubSeq(sorted, offset + 1, Min(offset + limit, Len(sorted)))
    IN  Answer(tbl, "ok", Msg(NoError, None),
               [i \in 1..Len(rows) |-> _to_entity(rows[i]).user], TRUE)

\* Mutant of list_all: limit and offset change places in the statement.
list_all_swapped(tbl, limit, offset) ==
    LET sorted == order_by(tbl)
        rows == SubSeq(sorted, limit + 1, Min(limit + offset, Len(sorted)))
    IN  Answer(tbl, "ok", Msg(NoError, None),
               [i \in 1..Len(rows) |-> _to_entity(rows[i]).user], TRUE)

\* Mutant of list_all: the rows of the page are taken out of the table.
list_all_consuming(tbl, limit, offset) ==
    LET sorted == order_by(tbl)
        rows == SubSeq(sorted, offset + 1, Min(offset + limit, Len(sorted)))
    IN  Answer(tbl \ {rows[i] : i \in 1..Len(rows)}, "ok", Msg(NoError, None),
               [i \in 1..Len(rows) |-> _to_entity(rows[i]).user], TRUE)

\* SQLAlchemyUserRepository.list_all: ORDER BY username LIMIT limit OFFSET
\* offset, each row mapped to an entity.
list_all(tbl, limit, offset) ==
    LET sorted == order_by(tbl)
        rows == SubSeq(sorted, offset + 1, Min(offset + limit, Len(sorted)))
        bad == {i \in 1..Len(rows) : _to_entity(rows[i]).err # NoError}
    IN  IF bad # {}
        THEN Answer(tbl, "ValueError",
                    Msg(_to_entity(rows[CHOOSE i \in bad : TRUE]).err, None),
                    <<>>, TRUE)
        ELSE Answer(tbl, "ok", Msg(NoError, None),
                    [i \in 1..Len(rows) |-> _to_entity(rows[i]).user], TRUE)

\* SQLAlchemyUserRepository.count: SELECT count(*)
count(tbl) == Cardinality(tbl)

\* The largest limit list_users accepts.
MaxLimit == 1000

\* Mutant of get_user_by_username: the name is matched as a prefix.
get_user_by_username_prefix(tbl, username) ==
    LET found == {r \in tbl : /\ Len(r.username) >= Len(username)
                              /\ SubSeq(r.username, 1, Len(username)) = username}
    IN  IF found = {}
        THEN Raise(tbl, "UserNotFound", Msg("User with username not found", username))
        ELSE Return(tbl, _to_entity(First(found)).user)

\* UserService.get_user_by_username
get_user_by_username(tbl, username) ==
    IF get_by_username(tbl, username) = {}
    THEN Raise(tbl, "UserNotFound", Msg("User with username not found", username))
    ELSE LET e == _to_entity(First(get_by_username(tbl, username)))
         IN  IF e.err # NoError
             THEN Raise(tbl, "ValueError", Msg(e.err, None))
             ELSE Return(tbl, e.user)

\* Mutant of list_users: the largest limit is refused.
list_users_exclusive_max(tbl, limit, offset) ==
    IF limit < 1 \/ limit >= MaxLimit
    THEN Answer(tbl, "ValueError", Msg("Limit must be between 1 and 1000", None),
                <<>>, FALSE)
    ELSE IF offset < 0
    THEN Answer(tbl, "ValueError", Msg("Offset must be non-negative", None),
                <<>>, FALSE)
    ELSE list_all(tbl, limit, offset)

\* UserService.list_users
list_users(tbl, limit, offset) ==
    IF limit < 1 \/ limit > MaxLimit
    THEN Answer(tbl, "ValueError", Msg("Limit must be between 1 and 1000", None),
                <<>>, FALSE)
    ELSE IF offset < 0
    THEN Answer(tbl, "ValueError", Msg("Offset must be non-negative", None),
                <<>>, FALSE)
    ELSE list_all(tbl, limit, offset)

\* UserService.get_total_user_count
get_total_user_count(tbl) ==
    Answer(tbl, "ok", Msg(NoError, None), count(tbl), TRUE)

----------------------------------------------------------------------------
(* Sequential specification: one request at a time, each in its own        *)
(* session, committed or rolled back before the next begins.               *)

Outcome(out) == [status |-> out.status, msg |-> out.msg, user |-> out.user]

CreateUserFrom(US, ES, FS, LS, PS, HS) ==
    /\ req = NoReq
    /\ \E username \in US, email \in ES, first_name \in FS, last_name \in LS,
       phone_number \in PS, profile_photo_url \in HS :
        LET out == create_user(users, uuid4({r.id : r \in users}), clock, username,
                               email, first_name, last_name, phone_number,
                               profile_photo_url)
        IN  /\ out.status = "ok" => Cardinality(users) < MaxUsers
            /\ req' = [op |-> "create_user", username |-> username, email |-> email,
                       first_name |-> first_name, last_name |-> last_name,
                       phone_number |-> phone_number,
                       profile_photo_url |-> profile_photo_url]
            /\ resp' = Outcome(out)
            /\ users' = get_db(users, out)
            /\ prev' = users
            /\ UNCHANGED <<clock, ent, procs>>

\* Mutant of UpdateUserProfileFrom: the handler changes the mapped row itself
\* and its session commits whether or not the call raised.
UpdateUserProfileInPlace(FS, LS, ES, PS) ==
    /\ req = NoReq
    /\ \E user_id \in Ids, first_name \in FS, last_name \in LS, email \in ES,
          phone_number \in PS :
        LET out == update_user_profile(users, user_id, first_name, last_name, email,
                                       phone_number)
            row == get_by_id(users, user_id)
            dirty == {_to_orm(update_profile(r, first_name, last_name, email,
                                             phone_number).user) : r \in row}
        IN  /\ req' = [op |-> "update_user_profile", user_id |-> user_id,
                       first_name |-> first_name, last_name |-> last_name,
                       email |-> email, phone_number |-> phone_number]
            /\ resp' = Outcome(out)
            /\ users' = IF out.status = "ValueError" THEN (users \ row) \cup dirty
                        ELSE get_db(users, out)
            /\ prev' = users
            /\ UNCHANGED <<clock, ent, procs>>

\* Mutant of UpdateUserProfileFrom: a successful update writes the current time
\* into registration_date.
UpdateUserProfileRestamp(FS, LS, ES, PS) ==
    /\ req = NoReq
    /\ \E user_id \in Ids, first_name \in FS, last_name \in LS, email \in ES,
          phone_number \in PS :
        LET out == update_user_profile(users, user_id, first_name, last_name, email,
                                       phone_number)
        IN  /\ req' = [op |-> "update_user_profile", user_id |-> user_id,
                       first_name |-> first_name, last_name |-> last_name,
                       email |-> email, phone_number |-> phone_number]
            /\ resp' = Outcome(out)
            /\ users' = {IF r.id = user_id /\ out.status = "ok"
                         THEN [r EXCEPT !.registration_date = clock] ELSE r :
                         r \in get_db(users, out)}
            /\ prev' = users
            /\ UNCHANGED <<clock, ent, procs>>

UpdateUserProfileFrom(FS, LS, ES, PS) ==
    /\ req = NoReq
    /\ \E user_id \in Ids, first_name \in FS, last_name \in LS, email \in ES,
       phone_number \in PS :
        LET out == update_user_profile(users, user_id, first_name, last_name, email,
                                       phone_number)
        IN  /\ req' = [op |-> "update_user_profile", user_id |-> user_id,
                       first_name |-> first_name, last_name |-> last_name,
                       email |-> email, phone_number |-> phone_number]
            /\ resp' = Outcome(out)
            /\ users' = get_db(users, out)
            /\ prev' = users
            /\ UNCHANGED <<clock, ent, procs>>

CreateUser == CreateUserFrom(Usernames, Emails, FirstNames, LastNames, Phones, Photos)

UpdateUserProfile == UpdateUserProfileFrom(NewFirstNames, NewLastNames, NewEmails, NewPhones)

CreateUserProfile ==
    CreateUserFrom(ProfileUsernames, ProfileEmails, ProfileFirstNames,
                   ProfileLastNames, ProfilePhones, ProfilePhotos)

UpdateUserProfileFields ==
    UpdateUserProfileFrom(ProfileFirstNames \cup {None}, ProfileLastNames \cup {None},
                          ProfileEmails \cup {None}, ProfilePhones)

Init == InitCommon

Next == CreateUser \/ UpdateUserProfile \/ Respond \/ Tick

Spec == Init /\ [][Next]_vars

InitEntity == InitCommon

NextEntity == EntCreateNew \/ EntUpdateProfile \/ EntUpdateProfilePhoto \/ Respond

SpecEntity == InitEntity /\ [][NextEntity]_vars

InitProfile == InitCommon

NextProfile == CreateUserProfile \/ UpdateUserProfileFields \/ Respond \/ Tick

SpecProfile == InitProfile /\ [][NextProfile]_vars

----------------------------------------------------------------------------
(* Registration specification: create_user with every optional field       *)
(* given or omitted.                                                       *)

RegisterUsernames == {S_abc, S_A_9}
RegisterEmails == {E_a, E_z, E_notld}
RegisterPhones == {None, <<>>, P_min, P_zero}
RegisterPhotos == {None, <<"p">>}

RegisterUser ==
    CreateUserFrom(RegisterUsernames, RegisterEmails, {<<"A">>}, {<<"X">>},
                   RegisterPhones, RegisterPhotos)

InitRegister == InitCommon

NextRegister == RegisterUser \/ Respond \/ Tick

SpecRegister == InitRegister /\ [][NextRegister]_vars

----------------------------------------------------------------------------
(* Query specification: every operation of the service, one request at a   *)
(* time, over a table of up to MaxListed users.                            *)

MaxListed == 3

QueryUsernames == {S_abc, S_A_9, S_abNL}
QueryEmails == {E_a, E_z, E_m}
QueryIds == 1..(MaxListed + 1)
Limits == {0, 1, 2, MaxLimit, MaxLimit + 1}
Offsets == {-1, 0, 1, 2, 3}

Reads == {"get_user", "get_user_by_username", "list_users", "get_total_user_count"}

Reply(out) == [status |-> out.status, msg |-> out.msg, value |-> out.value, queried |-> out.queried]

CreateUserListed ==
    /\ req = NoReq
    /\ Cardinality(users) < MaxListed
    /\ \E username \in QueryUsernames, email \in QueryEmails :
        LET out == create_user(users, uuid4({r.id : r \in users}), clock, username,
                               email, <<"A">>, <<"X">>, None, None)
        IN  /\ req' = [op |-> "create_user", username |-> username, email |-> email,
                       first_name |-> <<"A">>, last_name |-> <<"X">>,
                       phone_number |-> None, profile_photo_url |-> None]
            /\ resp' = Outcome(out)
            /\ users' = get_db(users, out)
            /\ prev' = users
            /\ UNCHANGED <<clock, ent, procs>>

UpdateUserProfileListed ==
    UpdateUserProfileFrom({None}, {None}, QueryEmails \cup {None}, {None})

GetUser ==
    /\ req = NoReq
    /\ \E user_id \in QueryIds :
        LET out == get_user(users, user_id)
        IN  /\ req' = [op |-> "get_user", user_id |-> user_id]
            /\ resp' = Outcome(out)
            /\ users' = get_db(users, out)
            /\ prev' = users
            /\ UNCHANGED <<clock, ent, procs>>

GetUserByUsername ==
    /\ req = NoReq
    /\ \E username \in QueryUsernames \cup {S_ab} :
        LET out == get_user_by_username(users, username)
        IN  /\ req' = [op |-> "get_user_by_username", username |-> username]
            /\ resp' = Outcome(out)
            /\ users' = get_db(users, out)
            /\ prev' = users
            /\ UNCHANGED <<clock, ent, procs>>

ListUsers ==
    /\ req = NoReq
    /\ \E limit \in Limits, offset \in Offsets :
        LET out == list_users(users, limit, offset)
        IN  /\ req' = [op |-> "list_users", limit |-> limit, offset |-> offset]
            /\ resp' = Reply(out)
            /\ users' = get_db(users, out)
            /\ prev' = users
            /\ UNCHANGED <<clock, ent, procs>>

GetTotalUserCount ==
    /\ req = NoReq
    /\ LET out == get_total_user_count(users)
       IN  /\ req' = [op |-> "get_total_user_count"]
           /\ resp' = Reply(out)
           /\ users' = get_db(users, out)
           /\ prev' = users
           /\ UNCHANGED <<clock, ent, procs>>

InitQuery == InitCommon

NextQuery ==
    \/ CreateUserListed
    \/ UpdateUserProfileListed
    \/ GetUser
    \/ GetUserByUsername
    \/ ListUsers
    \/ GetTotalUserCount
    \/ Respond
    \/ Tick

SpecQuery == InitQuery /\ [][NextQuery]_vars

----------------------------------------------------------------------------
(* Concurrent specification: NumProcs requests in flight, each with its    *)
(* own session (a transaction of the PostgreSQL database the settings name,*)
(* at its default isolation: a query sees the committed rows and the       *)
(* session's own writes).  A request advances one database round trip at a *)
(* time: the username lookup, the email lookup, the INSERT of the flush,   *)
(* the COMMIT of get_db.                                                   *)

Procs == 1..NumProcs

ConcUsernames == {S_abc, S_A_9}
ConcEmails == {E_a, E_z, E_notld}

\* Mutant of handle_user_exceptions: a conflict is reported as a bad request.
handle_user_exceptions_conflict_as_400(status) ==
    IF status = "UserNotFound" THEN 404
    ELSE IF status = "UserAlreadyExists" THEN 400
    ELSE IF status = "ValueError" THEN 400
    ELSE 500

\* The endpoints' except clauses: the HTTP status of an exception.  One that
\* no clause names leaves the endpoint and becomes a 500.
handle_user_exceptions(status) ==
    IF status = "UserNotFound" THEN 404
    ELSE IF status = "UserAlreadyExists" THEN 409
    ELSE IF status = "ValueError" THEN 400
    ELSE 500

\* The status_code of the route decorators: 201 for the POST, 200 by default.
status_code(op) == IF op = "create_user" THEN 201 ELSE 200

\* The request ends: its session is rolled back (raised) or was committed.
Done(p, out) ==
    [pc |-> "done", req |-> procs[p].req, row |-> procs[p].row,
     resp |-> [status |-> out.status, msg |-> out.msg, user |-> out.user,
               http |-> IF out.status = "ok" THEN status_code(procs[p].req.op)
                        ELSE handle_user_exceptions(out.status)]]

\* Rows other sessions have flushed and not yet committed: inserted rows, and
\* the new versions of rows an UPDATE has changed.
Pending(p) ==
    {procs[q].row : q \in {q \in Procs \ {p} : procs[q].pc = "commit"}} \cup
    {procs[q].row.written : q \in {q \in Procs \ {p} :
        procs[q].pc = "u_commit" /\ procs[q].row.written # NoEntity}}

\* Committed rows of which another session holds an uncommitted new version:
\* a statement that touches one of them, or one of their keys, waits.
Locked(p) ==
    {r \in users : \E q \in Procs \ {p} :
        /\ procs[q].pc = "u_commit"
        /\ procs[q].row.id = r.id
        /\ procs[q].row.written # NoEntity}

\* Identifiers in use: stored, or held by a request in flight.
UsedIds == {r.id : r \in users} \cup
           {procs[q].row.id : q \in {q \in Procs : procs[q].row # NoEntity}}

\* create_user, first round trip: get_by_username.
ConcCreateBeginFrom(p, US, ES) ==
    /\ procs[p].pc = "idle"
    /\ \E username \in US, email \in ES :
        LET r == [op |-> "create_user", username |-> username, email |-> email,
                  first_name |-> <<"A">>, last_name |-> <<"X">>,
                  phone_number |-> None, profile_photo_url |-> None]
            byName == get_by_username(users, username)
            me == [procs[p] EXCEPT !.req = r]
        IN  procs' = [procs EXCEPT ![p] =
                IF byName = {} THEN [me EXCEPT !.pc = "check_email"]
                ELSE [Done(p, create_user(users, 0, clock, username, email, <<"A">>,
                                          <<"X">>, None, None)) EXCEPT !.req = r]]
    /\ UNCHANGED <<users, clock, req, resp, prev, ent>>

ConcCreateBegin(p) == ConcCreateBeginFrom(p, ConcUsernames, ConcEmails)

\* create_user, second round trip: get_by_email, then User.create_new.
ConcCreateCheckEmail(p) ==
    /\ procs[p].pc = "check_email"
    /\ LET r == procs[p].req
           made == create_new(uuid4(UsedIds), clock, r.username, r.email,
                              r.first_name, r.last_name, r.phone_number,
                              r.profile_photo_url)
       IN  procs' = [procs EXCEPT ![p] =
               IF get_by_email(users, r.email) # {}
               THEN Done(p, Raise(users, "UserAlreadyExists",
                                  Msg("Email already exists", r.email)))
               ELSE IF made.err # NoError
               THEN Done(p, Raise(users, "ValueError", Msg(made.err, None)))
               ELSE [procs[p] EXCEPT !.pc = "save", !.row = _to_orm(made.user)]]
    /\ UNCHANGED <<users, clock, req, resp, prev, ent>>

\* repository save: the INSERT of the flush.  It waits while another session
\* holds an uncommitted row with the same key, and fails on a committed one.
ConcSave(p) ==
    /\ procs[p].pc = "save"
    /\ ~UniqueViolation(Pending(p), procs[p].row)
    /\ ~UniqueViolation(Locked(p), procs[p].row)
    /\ procs' = [procs EXCEPT ![p] =
           IF UniqueViolation(users, procs[p].row)
           THEN Done(p, save(users, procs[p].row))
           ELSE [procs[p] EXCEPT !.pc = "commit"]]
    /\ UNCHANGED <<users, clock, req, resp, prev, ent>>

\* get_db: the handler returned, the session commits.
ConcCommit(p) ==
    /\ procs[p].pc = "commit"
    /\ Cardinality(users) < MaxUsers
    /\ users' = get_db(users, save(users, procs[p].row))
    /\ procs' = [procs EXCEPT ![p] = Done(p, save(users, procs[p].row))]
    /\ UNCHANGED <<clock, req, resp, prev, ent>>

\* The response is delivered; the worker takes the next request.
ConcRespond(p) ==
    /\ procs[p].pc = "done"
    /\ procs' = [procs EXCEPT ![p] = Idle]
    /\ UNCHANGED <<users, clock, req, resp, prev, ent>>

\* The patches concurrent update_user_profile calls supply.
RacePatches ==
    {[first_name |-> <<"B">>, last_name |-> None, email |-> None],
     [first_name |-> None, last_name |-> None, email |-> E_z],
     [first_name |-> None, last_name |-> None, email |-> E_m]}

\* The users the concurrent calls update.
RaceIds == 1..MaxUsers

\* The concurrent create_user calls register one more user.
RaceUsernames == {S_A_9}
RaceEmails == {E_z, E_m}

\* The six columns SQLAlchemyUserRepository.update assigns.
UpdatedColumns ==
    {"username", "email", "first_name", "last_name", "phone_number",
     "profile_photo_url"}

\* update_user_profile after its lookups: User.update_profile on the loaded
\* entity.  The session holds the mapped object as it was loaded; the entity
\* is what the repository will copy onto it.
ConcApply(p, me) ==
    LET r == me.req
        loaded == me.row.loaded
        changed == update_profile(_to_entity(loaded).user, r.first_name, r.last_name,
                                  r.email, r.phone_number)
    IN  IF changed.err # NoError
        THEN [Done(p, Raise(users, "ValueError", Msg(changed.err, None)))
                 EXCEPT !.req = r, !.row = me.row]
        ELSE [me EXCEPT !.pc = "u_update", !.row.dirty = _to_orm(changed.user)]

\* update_user_profile, first round trip: get_user (SELECT by id).
ConcUpdateBegin(p) ==
    /\ procs[p].pc = "idle"
    /\ \E user_id \in RaceIds, patch \in RacePatches :
        LET r == [op |-> "update_user_profile", user_id |-> user_id,
                  first_name |-> patch.first_name, last_name |-> patch.last_name,
                  email |-> patch.email, phone_number |-> None]
            got == get_user(users, user_id)
            me == [procs[p] EXCEPT
                      !.req = r,
                      !.row = [id |-> user_id,
                               loaded |-> First(get_by_id(users, user_id)),
                               dirty |-> First(get_by_id(users, user_id)),
                               written |-> First(get_by_id(users, user_id))]]
        IN  procs' = [procs EXCEPT ![p] =
                IF got.status # "ok" THEN [Done(p, got) EXCEPT !.req = r]
                ELSE IF Truthy(r.email) /\ r.email # got.user.email
                THEN [me EXCEPT !.pc = "u_check_email"]
                ELSE ConcApply(p, me)]
    /\ UNCHANGED <<users, clock, req, resp, prev, ent>>

\* update_user_profile, second round trip: get_by_email, then update_profile.
ConcUpdateCheckEmail(p) ==
    /\ procs[p].pc = "u_check_email"
    /\ LET me == procs[p]
           inUse == EmailInUse(users, _to_entity(me.row.loaded).user, me.req.user_id,
                               me.req.email)
       IN  procs' = [procs EXCEPT ![p] =
               IF inUse.status # "ok" THEN Done(p, inUse) ELSE ConcApply(p, me)]
    /\ UNCHANGED <<users, clock, req, resp, prev, ent>>

\* Mutant of ConcUpdateFlush: the UPDATE sets all six columns to the values
\* of the session's object.
ConcUpdateFlushSnapshot(p) ==
    /\ procs[p].pc = "u_update"
    /\ LET me == procs[p]
           current == First(get_by_id(users, me.row.id))
           new == [me.row.dirty EXCEPT !.registration_date = current.registration_date]
       IN  /\ current \notin Locked(p)
           /\ ~UniqueViolation(Pending(p), [new EXCEPT !.id = 0])
           /\ procs' = [procs EXCEPT ![p] =
                  IF UniqueViolation(users \ {current}, new)
                  THEN Done(p, Raise(users, "IntegrityError",
                                     Msg("unique constraint", None)))
                  ELSE [me EXCEPT !.pc = "u_commit", !.row.written = new]]
    /\ UNCHANGED <<users, clock, req, resp, prev, ent>>

\* Mutant of ConcUpdateFlush: the email column has no unique constraint.
ConcUpdateFlushUnconstrained(p) ==
    /\ procs[p].pc = "u_update"
    /\ LET me == procs[p]
           current == First(get_by_id(users, me.row.id))
           cols == {c \in UpdatedColumns : me.row.dirty[c] # me.row.loaded[c]}
           new == [c \in DOMAIN current |->
                      IF c \in cols THEN me.row.dirty[c] ELSE current[c]]
       IN  /\ cols # {} => current \notin Locked(p)
           /\ procs' = [procs EXCEPT ![p] =
                  [me EXCEPT !.pc = "u_commit",
                             !.row.written = IF cols = {} THEN NoEntity ELSE new]]
    /\ UNCHANGED <<users, clock, req, resp, prev, ent>>

\* repository update: the mapped object the session loaded is assigned the
\* entity's six columns and flushed.  The flush writes the columns whose value
\* differs from the loaded one, in an UPDATE of the row as it is committed by
\* then, and no statement when none differs; the UPDATE waits for a session
\* that holds an uncommitted version of the row or of a row with the same key,
\* and fails on a committed row with the key.
ConcUpdateFlush(p) ==
    /\ procs[p].pc = "u_update"
    /\ LET me == procs[p]
           current == First(get_by_id(users, me.row.id))
           cols == {c \in UpdatedColumns : me.row.dirty[c] # me.row.loaded[c]}
           new == [c \in DOMAIN current |->
                      IF c \in cols THEN me.row.dirty[c] ELSE current[c]]
       IN  /\ cols # {}
              => /\ current \notin Locked(p)
                 /\ ~UniqueViolation(Pending(p), [new EXCEPT !.id = 0])
                 /\ ~UniqueViolation(Locked(p), [new EXCEPT !.id = 0])
           /\ procs' = [procs EXCEPT ![p] =
                  IF UniqueViolation(users \ {current}, new)
                  THEN Done(p, Raise(users, "IntegrityError",
                                     Msg("unique constraint", None)))
                  ELSE [me EXCEPT !.pc = "u_commit",
                                  !.row.written = IF cols = {} THEN NoEntity ELSE new]]
    /\ UNCHANGED <<users, clock, req, resp, prev, ent>>

\* get_db: the handler returned the session's object, the session commits.
ConcUpdateCommit(p) ==
    /\ procs[p].pc = "u_commit"
    /\ users' = IF procs[p].row.written = NoEntity THEN users
                ELSE (users \ get_by_id(users, procs[p].row.id))
                         \cup {procs[p].row.written}
    /\ procs' = [procs EXCEPT ![p] =
           Done(p, Return(users', _to_entity(procs[p].row.dirty).user))]
    /\ UNCHANGED <<clock, req, resp, prev, ent>>

InitConc == InitCommon

NextConc ==
    \E p \in Procs :
        \/ ConcCreateBegin(p)
        \/ ConcCreateCheckEmail(p)
        \/ ConcSave(p)
        \/ ConcCommit(p)
        \/ ConcRespond(p)

SpecConc == InitConc /\ [][NextConc]_vars

\* One user is registered before the concurrent requests begin.
InitRace ==
    /\ users = get_db({}, create_user({}, uuid4({}), 0, S_abc, E_a, <<"A">>, <<"X">>,
                                       None, None))
    /\ clock = 0
    /\ req = NoReq
    /\ resp = NoResp
    /\ prev = {}
    /\ ent = NoEntity
    /\ procs = [p \in Procs |-> Idle]

ConcRegister(p) == ConcCreateBeginFrom(p, RaceUsernames, RaceEmails)

NextRace ==
    \E p \in Procs :
        \/ ConcRegister(p)
        \/ ConcCreateCheckEmail(p)
        \/ ConcSave(p)
        \/ ConcCommit(p)
        \/ ConcUpdateBegin(p)
        \/ ConcUpdateCheckEmail(p)
        \/ ConcUpdateFlush(p)
        \/ ConcUpdateCommit(p)
        \/ ConcRespond(p)

SpecRace == InitRace /\ [][NextRace]_vars

----------------------------------------------------------------------------
(* Session specification: the steps of get_db around the body of a request. *)
(* The body is an endpoint's service call, or a call of the repository port *)
(* by the holder of a User object.  Requests are served one at a time.      *)

\* The User objects a caller of the repository port holds: one loaded from a
\* stored row or made by create_new, after an update_profile call that
\* succeeded or raised (the object keeps what was assigned before the raise).
HeldUsers(tbl, now) ==
    LET fresh == create_new(uuid4({r.id : r \in tbl}), now, S_A_9, E_z, <<"A">>,
                            <<"X">>, None, None).user
        loaded == {_to_entity(r).user : r \in tbl}
    IN  {update_profile(u, first_name, None, email, None).user :
            u \in loaded \cup {fresh}, first_name \in {None, <<"B">>},
            email \in {None, E_notld}}

\* The requests a session serves.
SessionRequests(tbl, now) ==
    {[op |-> "create_user", username |-> username, email |-> email] :
        username \in ConcUsernames, email \in ConcEmails} \cup
    {[op |-> "update_user_profile", user_id |-> user_id, first_name |-> first_name,
      email |-> email] :
        user_id \in Ids, first_name \in {None, <<"B">>}, email \in {None, E_z, E_notld}} \cup
    {[op |-> op, user |-> user] : op \in {"save", "update"}, user \in HeldUsers(tbl, now)}

\* What runs between the yield of get_db and its resumption.
SessionBody(r, tbl, now) ==
    IF r.op = "create_user"
    THEN create_user(tbl, uuid4({x.id : x \in tbl}), now, r.username, r.email,
                     <<"A">>, <<"X">>, None, None)
    ELSE IF r.op = "update_user_profile"
    THEN update_user_profile(tbl, r.user_id, r.first_name, None, r.email, None)
    ELSE IF r.op = "save" THEN save(tbl, r.user)
    ELSE update(tbl, r.user)

\* get_db: db = SessionLocal(), yield db.
SessionOpen(p) ==
    /\ \A q \in Procs : procs[q].pc = "idle"
    /\ \E r \in SessionRequests(users, clock) :
        procs' = [procs EXCEPT ![p] =
            [pc |-> "yielded", req |-> r, seen |-> users, db |-> users,
             resp |-> NoResp, log |-> <<>>]]
    /\ UNCHANGED <<users, clock, req, resp, prev, ent>>

\* The body runs in the session: what it flushes is in the session's view,
\* and it returns or raises.
SessionHandler(p) ==
    /\ procs[p].pc = "yielded"
    /\ LET out == SessionBody(procs[p].req, procs[p].db, clock)
       IN  /\ Cardinality(out.tbl) <= MaxUsers
           /\ procs' = [procs EXCEPT ![p] =
                  [procs[p] EXCEPT !.pc = IF out.status = "ok" THEN "returned"
                                          ELSE "raised",
                                   !.db = out.tbl,
                                   !.resp = Outcome(out)]]
    /\ UNCHANGED <<users, clock, req, resp, prev, ent>>

\* get_db, after the yield returned: db.commit().
SessionCommit(p) ==
    /\ procs[p].pc = "returned"
    /\ users' = procs[p].db
    /\ procs' = [procs EXCEPT ![p] =
           [procs[p] EXCEPT !.pc = "committed", !.log = Append(@, "commit")]]
    /\ UNCHANGED <<clock, req, resp, prev, ent>>

\* Mutant of SessionRollback: the except clause commits.
SessionRollbackCommits(p) ==
    /\ procs[p].pc = "raised"
    /\ users' = procs[p].db
    /\ procs' = [procs EXCEPT ![p] =
           [procs[p] EXCEPT !.pc = "rolled_back", !.log = Append(@, "rollback")]]
    /\ UNCHANGED <<clock, req, resp, prev, ent>>

\* get_db, the exception thrown in at the yield: db.rollback(), raise.
SessionRollback(p) ==
    /\ procs[p].pc = "raised"
    /\ procs' = [procs EXCEPT ![p] =
           [procs[p] EXCEPT !.pc = "rolled_back", !.log = Append(@, "rollback")]]
    /\ UNCHANGED <<users, clock, req, resp, prev, ent>>

\* get_db, finally: db.close().
SessionClose(p) ==
    /\ procs[p].pc \in {"committed", "rolled_back"}
    /\ procs' = [procs EXCEPT ![p] =
           [procs[p] EXCEPT !.pc = "closed", !.log = Append(@, "close")]]
    /\ UNCHANGED <<users, clock, req, resp, prev, ent>>

\* The response or the exception reaches the caller.
SessionRespond(p) ==
    /\ procs[p].pc = "closed"
    /\ procs' = [procs EXCEPT ![p] = Idle]
    /\ UNCHANGED <<users, clock, req, resp, prev, ent>>

InitSession == InitCommon

NextSession ==
    \/ \E p \in Procs :
        \/ SessionOpen(p)
        \/ SessionHandler(p)
        \/ SessionCommit(p)
        \/ SessionRollback(p)
        \/ SessionClose(p)
        \/ SessionRespond(p)
    \/ Tick

SpecSession == InitSession /\ [][NextSession]_vars

----------------------------------------------------------------------------
(* HTTP specification: the four user endpoints, one request at a time.  A   *)
(* body or a query string the request models refuse is answered 422 before  *)
(* the endpoint runs; the bodies below are ones the models accept.  The     *)
(* email type of the request models accepts "!" in the local part, which    *)
(* the entity's pattern does not.                                           *)

E_bang == <<"a", "!", "@", "b", ".", "c", "o">>

ApiUsernames == {S_abc, S_A_9}
ApiEmails == {E_a, E_z, E_bang}
ApiPhones == {None, P_min}

\* The exceptions each endpoint's except clauses name.
Caught(op) ==
    IF op = "create_user" THEN {"UserAlreadyExists", "ValueError"}
    ELSE IF op = "get_user" THEN {"UserNotFound"}
    ELSE IF op = "update_user_profile"
    THEN {"UserNotFound", "UserAlreadyExists", "ValueError"}
    ELSE {}

\* The HTTP status of an endpoint's outcome.
Http(op, status) ==
    IF status = "ok" THEN status_code(op)
    ELSE IF status \in Caught(op) THEN handle_user_exceptions(status)
    ELSE 500

\* What the client receives for a service outcome.
ApiOutcome(op, out) ==
    [status |-> out.status, msg |-> out.msg, user |-> out.user,
     http |-> Http(op, out.status)]

\* POST /users
ApiCreateUser ==
    /\ req = NoReq
    /\ \E username \in ApiUsernames, email \in ApiEmails, phone_number \in ApiPhones :
        LET out == create_user(users, uuid4({r.id : r \in users}), clock, username,
                               email, <<"A">>, <<"X">>, phone_number, None)
        IN  /\ out.status = "ok" => Cardinality(users) < MaxUsers
            /\ req' = [op |-> "create_user", username |-> username, email |-> email,
                       first_name |-> <<"A">>, last_name |-> <<"X">>,
                       phone_number |-> phone_number, profile_photo_url |-> None]
            /\ resp' = ApiOutcome("create_user", out)
            /\ users' = get_db(users, out)
            /\ prev' = users
            /\ UNCHANGED <<clock, ent, procs>>

\* GET /users/{user_id}
ApiGetUser ==
    /\ req = NoReq
    /\ \E user_id \in Ids :
        LET out == get_user(users, user_id)
        IN  /\ req' = [op |-> "get_user", user_id |-> user_id]
            /\ resp' = ApiOutcome("get_user", out)
            /\ users' = get_db(users, out)
            /\ prev' = users
            /\ UNCHANGED <<clock, ent, procs>>

\* PUT /users/{user_id}
ApiUpdateUserProfile ==
    /\ req = NoReq
    /\ \E user_id \in Ids, first_name \in {None, <<"B">>},
          email \in ApiEmails \cup {None}, phone_number \in ApiPhones :
        LET out == update_user_profile(users, user_id, first_name, None, email,
                                       phone_number)
        IN  /\ req' = [op |-> "update_user_profile", user_id |-> user_id,
                       first_name |-> first_name, last_name |-> None,
                       email |-> email, phone_number |-> phone_number]
            /\ resp' = ApiOutcome("update_user_profile", out)
            /\ users' = get_db(users, out)
            /\ prev' = users
            /\ UNCHANGED <<clock, ent, procs>>

\* The defaults and the bounds of the list endpoint's query parameters.
DefaultLimit == 20
MaxPageSize == 100

\* What a client sends as limit and offset: the set of the values given,
\* empty when the parameter is absent.
ApiLimits == {{}} \cup {{n} : n \in {0, 1, 2, MaxPageSize, MaxPageSize + 1, MaxLimit + 1}}
ApiOffsets == {{}} \cup {{n} : n \in {-1, 0, 1, 2}}

\* Query(default, ...): the value given, or the default.
Query(given, default) == IF given = {} THEN default ELSE CHOOSE v \in given : TRUE

\* The answer of the list endpoint: whether the service was called, and the
\* UserListResponse.
Listing(tbl, status, http, called, page, total, limit, offset) ==
    [status |-> status, http |-> http, called |-> called, users |-> page,
     total |-> total, limit |-> limit, offset |-> offset, tbl |-> tbl]

\* Mutant of api_list_users: the limit has no upper bound.
api_list_users_unbounded(tbl, limit, offset) ==
    LET lim == Query(limit, DefaultLimit)
        off == Query(offset, 0)
        page == list_users(tbl, lim, off)
    IN  IF lim < 1 \/ off < 0
        THEN Listing(tbl, "RequestValidationError", 422, FALSE, <<>>, 0, lim, off)
        ELSE IF page.status # "ok"
        THEN Listing(tbl, page.status, Http("list_users", page.status), TRUE,
                     <<>>, 0, lim, off)
        ELSE Listing(tbl, "ok", Http("list_users", "ok"), TRUE, page.value,
                     get_total_user_count(tbl).value, lim, off)

\* Mutant of api_list_users: total is the length of the page.
api_list_users_total_of_page(tbl, limit, offset) ==
    LET lim == Query(limit, DefaultLimit)
        off == Query(offset, 0)
        page == list_users(tbl, lim, off)
    IN  IF lim < 1 \/ lim > MaxPageSize \/ off < 0
        THEN Listing(tbl, "RequestValidationError", 422, FALSE, <<>>, 0, lim, off)
        ELSE IF page.status # "ok"
        THEN Listing(tbl, page.status, Http("list_users", page.status), TRUE,
                     <<>>, 0, lim, off)
        ELSE Listing(tbl, "ok", Http("list_users", "ok"), TRUE, page.value,
                     Len(page.value), lim, off)

\* GET /users: the query parameters are validated (limit from 1 to 100, 20
\* when absent; offset from 0, 0 when absent), then list_users and
\* get_total_user_count are called and their results returned with the
\* parameters.  The endpoint has no except clause.
api_list_users(tbl, limit, offset) ==
    LET lim == Query(limit, DefaultLimit)
        off == Query(offset, 0)
        page == list_users(tbl, lim, off)
    IN  IF lim < 1 \/ lim > MaxPageSize \/ off < 0
        THEN Listing(tbl, "RequestValidationError", 422, FALSE, <<>>, 0, lim, off)
        ELSE IF page.status # "ok"
        THEN Listing(tbl, page.status, Http("list_users", page.status), TRUE,
                     <<>>, 0, lim, off)
        ELSE Listing(tbl, "ok", Http("list_users", "ok"), TRUE, page.value,
                     get_total_user_count(tbl).value, lim, off)

ApiListUsers ==
    /\ req = NoReq
    /\ \E limit \in ApiLimits, offset \in ApiOffsets :
        LET out == api_list_users(users, limit, offset)
        IN  /\ req' = [op |-> "list_users", limit |-> limit, offset |-> offset]
            /\ resp' = [f \in DOMAIN out \ {"tbl"} |-> out[f]]
            /\ users' = get_db(users, out)
            /\ prev' = users
            /\ UNCHANGED <<clock, ent, procs>>

InitApi == InitCommon

NextApi ==
    \/ ApiCreateUser
    \/ ApiGetUser
    \/ ApiUpdateUserProfile
    \/ ApiListUsers
    \/ Respond
    \/ Tick

SpecApi == InitApi /\ [][NextApi]_vars

----------------------------------------------------------------------------
(* Properties *)

\* C1: after any sequence of successful or failed create_user and
\* update_user_profile calls made one at a time, no two distinct stored users
\* have the same username and no two have the same email.
C1_UniqueUsernameAndEmail ==
    \A r1 \in users, r2 \in users :
        r1 # r2 => r1.username # r2.username /\ r1.email # r2.email

\* two users are stored and an update that would have duplicated an email
\* was just rejected
C1_Witness ==
    /\ Cardinality(users) = 2
    /\ req.op = "update_user_profile"
    /\ resp.status = "UserAlreadyExists"

\* C3: with username u stored, create_user with username u and an email no
\* stored user has fails with UserAlreadyExists naming the username, and the
\* stored users are unchanged.
C3_DuplicateUsernameRejected ==
    (/\ req.op = "create_user"
     /\ get_by_username(prev, req.username) # {}
     /\ get_by_email(prev, req.email) = {})
    => /\ resp.status = "UserAlreadyExists"
       /\ resp.msg = Msg("Username already exists", req.username)
       /\ users = prev

C3_Witness ==
    /\ req.op = "create_user"
    /\ get_by_username(prev, req.username) # {}
    /\ get_by_email(prev, req.email) = {}
    /\ _validate_email(req) = NoError
    /\ resp.status = "UserAlreadyExists"

\* C4: with email e stored, create_user with email e and a username no stored
\* user has fails with UserAlreadyExists naming the email, and the stored
\* users are unchanged.
C4_DuplicateEmailRejected ==
    (/\ req.op = "create_user"
     /\ get_by_email(prev, req.email) # {}
     /\ get_by_username(prev, req.username) = {})
    => /\ resp.status = "UserAlreadyExists"
       /\ resp.msg = Msg("Email already exists", req.email)
       /\ users = prev

C4_Witness ==
    /\ req.op = "create_user"
    /\ get_by_email(prev, req.email) # {}
    /\ get_by_username(prev, req.username) = {}
    /\ _validate_username(req) = NoError
    /\ resp.status = "UserAlreadyExists"

\* C5: when both the username and the email of a create_user call are owned
\* by stored users (the same one or two), the failure reported is the username
\* conflict, never the email conflict.
C5_UsernameConflictReportedFirst ==
    (/\ req.op = "create_user"
     /\ get_by_username(prev, req.username) # {}
     /\ get_by_email(prev, req.email) # {})
    => /\ resp.status = "UserAlreadyExists"
       /\ resp.msg = Msg("Username already exists", req.username)

\* the username and the email belong to two different stored users
C5_Witness ==
    /\ req.op = "create_user"
    /\ resp.status = "UserAlreadyExists"
    /\ \E r1 \in prev, r2 \in prev :
        r1 # r2 /\ r1.username = req.username /\ r2.email = req.email

\* The format rules as the specification states them.
UsernameRule(username) ==
    Len(username) >= 3 /\ Len(username) <= 50 /\ AllIn(username, UsernameChar)
EmailRule(email) ==
    email # <<>> /\ email # None /\ Len(email) <= 100 /\ _EMAIL_REGEX(email)
PhoneRule(phone_number) ==
    ~Truthy(phone_number) \/ _PHONE_REGEX(phone_number)

\* C6: every stored user, in every reachable state, satisfies the format
\* rules: username of 3 to 50 letters, digits and underscores; email non-empty,
\* at most 100 characters, matching the email grammar; phone number absent,
\* empty or matching the phone pattern.
C6_StoredUsersWellFormed ==
    \A r \in users :
        UsernameRule(r.username) /\ EmailRule(r.email) /\ PhoneRule(r.phone_number)

\* C7: when User.update_profile fails with a validation error the instance
\* holds, in every field, the value it had before the call, so that no User
\* instance is observable in an invalid state.
C7_FailedUpdateKeepsEntity ==
    /\ (req.op = "update_profile" /\ resp.status = "ValueError") => prev = {ent}
    /\ ent # NoEntity => post_init(ent) = NoError

\* C8: a create_user or update_user_profile call that fails with UserNotFound,
\* UserAlreadyExists or a validation error leaves the persisted users, and
\* every persisted field of each, exactly as before the call.
C8_FailedCallPersistsNothing ==
    (/\ req.op \in {"create_user", "update_user_profile"}
     /\ resp.status \in {"UserNotFound", "UserAlreadyExists", "ValueError"})
    => users = prev

\* an update that assigned a field in memory and then failed validation
C8_Witness ==
    /\ req.op = "update_user_profile"
    /\ resp.status = "ValueError"
    /\ req.first_name # None
    /\ \E r \in users : r.id = req.user_id /\ r.first_name # req.first_name

\* C9: a successful update_user_profile changes only the fields supplied:
\* each of first_name, last_name, email, phone_number that is omitted keeps its
\* persisted value, each one supplied holds the supplied value, and get_user
\* then returns the updated record.
Kept(supplied, old, new) == IF supplied = None THEN new = old ELSE new = supplied

C9_OmittedFieldsKept ==
    (req.op = "update_user_profile" /\ resp.status = "ok")
    => \E old \in prev, new \in users :
        /\ old.id = req.user_id
        /\ new.id = req.user_id
        /\ Kept(req.first_name, old.first_name, new.first_name)
        /\ Kept(req.last_name, old.last_name, new.last_name)
        /\ Kept(req.email, old.email, new.email)
        /\ Kept(req.phone_number, old.phone_number, new.phone_number)
        /\ resp.user = new
        /\ get_user(users, req.user_id).status = "ok"
        /\ get_user(users, req.user_id).user = new

\* only first_name was supplied; the others, a stored phone number among
\* them, are as before
C9_Witness ==
    /\ req.op = "update_user_profile"
    /\ resp.status = "ok"
    /\ req.first_name # None
    /\ req.last_name = None /\ req.email = None /\ req.phone_number = None
    /\ \E old \in prev, new \in users :
        /\ old.id = req.user_id /\ new.id = req.user_id
        /\ new.first_name # old.first_name
        /\ new.phone_number = P_min

\* C10: update_user_profile never fails with UserAlreadyExists when the email
\* is omitted or equals the target user's own current email, whatever other
\* users are stored.
C10_OwnEmailIsNoConflict ==
    (/\ req.op = "update_user_profile"
     /\ \/ req.email = None
        \/ \E r \in prev : r.id = req.user_id /\ r.email = req.email)
    => resp.status # "UserAlreadyExists"

\* the user's own email was supplied while another user is stored
C10_Witness ==
    /\ req.op = "update_user_profile"
    /\ \E r \in prev : r.id = req.user_id /\ r.email = req.email
    /\ Cardinality(prev) = 2
    /\ resp.status = "ok"

\* C2: when two create_user calls with the same username (or email) both pass
\* the service's uniqueness check before either writes, at most one user is
\* persisted and the losing call fails with UserAlreadyExists (a 409), the
\* database's uniqueness violation being translated by the service or its
\* caller, not with any other error.
C2_RaceLoserGetsUserAlreadyExists ==
    /\ \A r1 \in users, r2 \in users :
        r1 # r2 => r1.username # r2.username /\ r1.email # r2.email
    /\ \A p \in Procs :
        (/\ procs[p].pc = "done"
         /\ procs[p].row # NoEntity
         /\ procs[p].resp.status # "ok")
        => /\ procs[p].resp.status = "UserAlreadyExists"
           /\ procs[p].resp.http = 409

\* C11: update_user_profile on a stored user with an email that differs from
\* the user's own and that another stored user owns fails with
\* UserAlreadyExists, and no persisted record changes.
C11_EmailOfAnotherUserRejected ==
    (/\ req.op = "update_user_profile"
     /\ req.email # None
     /\ \E u \in prev, o \in prev :
            /\ u.id = req.user_id
            /\ o.id # u.id
            /\ req.email # u.email
            /\ o.email = req.email)
    => /\ resp.status = "UserAlreadyExists"
       /\ users = prev

\* user 1 was given the email of user 2 and the call was rejected
C11_Witness ==
    /\ req.op = "update_user_profile"
    /\ req.email # None
    /\ \E u \in prev, o \in prev :
        u.id = req.user_id /\ o.id # u.id /\ req.email # u.email /\ o.email = req.email
    /\ resp.status = "UserAlreadyExists"
    /\ resp.msg = Msg("Email already in use", req.email)

\* C12: id, registration_date and username of every stored user are, after any
\* step (an update_user_profile call in particular), what they were before it,
\* and a successful update_user_profile returns them unchanged.
C12_IdentityFieldsImmutable ==
    [][/\ \A r \in users : \E q \in users' :
            /\ q.id = r.id
            /\ q.username = r.username
            /\ q.registration_date = r.registration_date
       /\ (req'.op = "update_user_profile" /\ resp'.status = "ok")
          => \E r \in users :
                /\ r.id = req'.user_id
                /\ resp'.user.id = r.id
                /\ resp'.user.username = r.username
                /\ resp'.user.registration_date = r.registration_date]_vars

\* a user registered at time 0 was updated at time 1
C12_Witness ==
    /\ req.op = "update_user_profile"
    /\ resp.status = "ok"
    /\ users # prev
    /\ clock = 1
    /\ \E r \in users : r.id = req.user_id /\ r.registration_date = 0

\* C13: a successful create_user returns a record whose id no previously
\* stored user has, whose registration_date is the clock's value during the
\* call, whose fields are the supplied ones, an omitted phone_number or
\* profile_photo_url being null; get_user(id) then returns the same record.
C13_CreatedRecord ==
    (req.op = "create_user" /\ resp.status = "ok")
    => /\ \A r \in prev : r.id # resp.user.id
       /\ resp.user.registration_date = clock
       /\ resp.user.username = req.username
       /\ resp.user.email = req.email
       /\ resp.user.first_name = req.first_name
       /\ resp.user.last_name = req.last_name
       /\ resp.user.phone_number = req.phone_number
       /\ resp.user.profile_photo_url = req.profile_photo_url
       /\ get_user(users, resp.user.id).status = "ok"
       /\ get_user(users, resp.user.id).user = resp.user

\* a second user was registered at time 1, phone number given, photo omitted
C13_Witness ==
    /\ req.op = "create_user"
    /\ resp.status = "ok"
    /\ prev # {}
    /\ clock = 1
    /\ req.phone_number = P_min
    /\ req.profile_photo_url = None
    /\ resp.user.profile_photo_url = None

\* C14: get_user(id) fails with UserNotFound exactly when no stored user has
\* the id, get_user_by_username(name) exactly when no stored user has the
\* username; otherwise each returns the stored user that matches.
C14_LookupFindsExactlyStoredUsers ==
    /\ req.op = "get_user"
       => IF \E r \in prev : r.id = req.user_id
          THEN /\ resp.status = "ok"
               /\ resp.user.id = req.user_id
               /\ _to_orm(resp.user) \in prev
          ELSE resp.status = "UserNotFound"
    /\ req.op = "get_user_by_username"
       => IF \E r \in prev : r.username = req.username
          THEN /\ resp.status = "ok"
               /\ resp.user.username = req.username
               /\ _to_orm(resp.user) \in prev
          ELSE resp.status = "UserNotFound"

\* a name that is the beginning of a stored username is not found
C14_Witness ==
    /\ req.op = "get_user_by_username"
    /\ req.username = S_ab
    /\ \E r \in prev : r.username = S_abc
    /\ resp.status = "UserNotFound"

\* C15: list_users(limit, offset) fails with a range error if and only if
\* limit < 1, limit > 1000 or offset < 0 (0 and 1001 fail, 1 and 1000
\* succeed); a failing call neither queries nor changes the store.
C15_ListRangeChecked ==
    req.op = "list_users"
    => /\ resp.status # "ok"
          <=> (req.limit < 1 \/ req.limit > 1000 \/ req.offset < 0)
       /\ resp.status # "ok"
          => /\ resp.status = "ValueError"
             /\ ~resp.queried
             /\ users = prev
       /\ resp.status = "ok" => resp.queried

\* the largest limit was accepted over a table holding users
C15_Witness ==
    /\ req.op = "list_users"
    /\ req.limit = 1000
    /\ req.offset = 0
    /\ resp.status = "ok"
    /\ Len(resp.value) = MaxListed

\* C16: when list_users has returned a page for limit L and an offset that is
\* a multiple of L, then, over the unchanged table, that page and the pages
\* for the offsets 0, L, 2L, ... are each sorted by username ascending, every
\* user of an earlier page has a smaller username than every user of a later
\* page, the pages share no id, and every stored user is on exactly one page.
C16_PagesPartitionSortedUsers ==
    (/\ req.op = "list_users"
     /\ resp.status = "ok"
     /\ req.offset % req.limit = 0
     /\ req.limit <= MaxListed)
    => LET L == req.limit
           Pages == 0..Cardinality(users)
           pages == [k \in Pages |->
                        IF k * L = req.offset THEN resp
                        ELSE Reply(list_users(users, L, k * L))]
           Slots == {s \in Pages \X (1..L) : s[2] <= Len(pages[s[1]].value)}
           at(s) == pages[s[1]].value[s[2]]
       IN  /\ \A k \in Pages : pages[k].status = "ok"
           /\ \A s \in Slots, t \in Slots :
               (s[1] < t[1] \/ (s[1] = t[1] /\ s[2] < t[2]))
               => /\ StrLess(at(s).username, at(t).username)
                  /\ at(s).id # at(t).id
           /\ \A r \in users : Cardinality({s \in Slots : at(s) = r}) = 1

\* the second page of one user was listed from three users of which the first
\* registered does not have the smallest username
C16_Witness ==
    /\ req.op = "list_users"
    /\ req.limit = 1
    /\ req.offset = 1
    /\ resp.status = "ok"
    /\ Len(resp.value) = 1
    /\ Cardinality(users) = 3
    /\ \E r \in users, q \in users :
        r.id < q.id /\ StrLess(q.username, r.username) /\ resp.value[1] = q

\* C17: get_total_user_count() is the number of stored users, which grows by
\* one with each create_user call that succeeds and with nothing else, and
\* list_users(limit, offset) returns min(limit, max(0, count - offset)) users.
C17_CountMatchesStoreAndPages ==
    [][/\ Cardinality(users') = Cardinality(users)
            + (IF req'.op = "create_user" /\ resp'.status = "ok" THEN 1 ELSE 0)
       /\ req'.op = "get_total_user_count"
          => resp'.value = Cardinality(users')
       /\ (req'.op = "list_users" /\ resp'.status = "ok")
          => Len(resp'.value)
                = Min(req'.limit, Max(0, Cardinality(users') - req'.offset))]_vars

\* a page that the end of the table cuts short
C17_Witness ==
    /\ req.op = "list_users"
    /\ req.limit = 2
    /\ req.offset = 2
    /\ Cardinality(users) = 3
    /\ resp.status = "ok"
    /\ Len(resp.value) = 1

\* C18: get_user, get_user_by_username, list_users and get_total_user_count
\* leave the persisted users as they found them, whether they succeed or
\* fail; only create_user and update_user_profile change persisted state.
C18_QueriesAreReadOnly ==
    [][/\ req'.op \in Reads => users' = users
       /\ users' # users => req'.op \in {"create_user", "update_user_profile"}]_vars

\* a page was listed and the table is the one the call found
C18_Witness ==
    /\ req.op = "list_users"
    /\ resp.status = "ok"
    /\ Len(resp.value) = 2
    /\ users = prev
    /\ Cardinality(users) = 3

\* C19: constructing a User succeeds if and only if the username is 3 to 50
\* characters from [A-Za-z0-9_], the email is non-empty, at most 100
\* characters and matches the email grammar, and the phone number is absent,
\* empty or matches the phone pattern; any other input fails with a
\* validation error.
C19_ConstructedIffRulesHold ==
    req.op = "User"
    => /\ resp.status = "ok"
          <=> /\ UsernameRule(req.username)
              /\ EmailRule(req.email)
              /\ PhoneRule(req.phone_number)
       /\ resp.status # "ok" => resp.status = "ValueError"

\* C20: no operation removes a user: in every step the stored ids only
\* grow, a get_user(id) that succeeds before the step succeeds after it, and
\* get_total_user_count() does not decrease.
C20_UsersAreNeverRemoved ==
    [][/\ {r.id : r \in users} \subseteq {r.id : r \in users'}
       /\ \A user_id \in QueryIds :
            get_user(users, user_id).status = "ok"
            => get_user(users', user_id).status = "ok"
       /\ get_total_user_count(users').value >= get_total_user_count(users).value]_vars

\* a stored user was rewritten by an update while two users are stored
C20_Witness ==
    /\ req.op = "update_user_profile"
    /\ resp.status = "ok"
    /\ users # prev
    /\ Cardinality(prev) = 2
    /\ {r.id : r \in users} = {r.id : r \in prev}

\* C21: a phone number can be removed through update_profile: after a call
\* that passes phone_number=None and succeeds, the user has no phone number
\* (none, or the empty one).
C21_NonePhoneRemovesPhone ==
    (/\ req.op = "update_profile"
     /\ req.phone_number = None
     /\ resp.status = "ok")
    => ~Truthy(ent.phone_number)

\* C22: update_profile_photo(url) always succeeds, sets profile_photo_url to
\* the given value, null included, without validation, and leaves every
\* other field of the user as it was.
C22_PhotoReplacedUnconditionally ==
    req.op = "update_profile_photo"
    => /\ resp.status = "ok"
       /\ \A before \in prev :
            ent = [before EXCEPT !.profile_photo_url = req.photo_url]

\* a photo was replaced by null
C22_Witness ==
    /\ req.op = "update_profile_photo"
    /\ req.photo_url = None
    /\ \E before \in prev : before.profile_photo_url = <<"p">>
    /\ ent.profile_photo_url = None

\* The fields of an update_user_profile request.
PatchFields == {"first_name", "last_name", "email", "phone_number"}

C24_ConcurrentCallsKeepUniqueness ==
    \A r1 \in users, r2 \in users :
        r1.id # r2.id => r1.username # r2.username /\ r1.email # r2.email

\* two updates passed the service's email check for one new email; the
\* second to write was stopped by the unique column
C24_Witness ==
    \E p \in Procs, q \in Procs :
        /\ p # q
        /\ procs[p].pc = "done"
        /\ procs[p].req.op = "update_user_profile"
        /\ procs[p].resp.status = "IntegrityError"
        /\ procs[q].pc = "done"
        /\ procs[q].req.op = "update_user_profile"
        /\ procs[q].resp.status = "ok"
        /\ procs[q].req.email = procs[p].req.email
        /\ procs[q].req.user_id # procs[p].req.user_id
        /\ Cardinality(users) = 2

\* C25: update_user_profile reports errors in a fixed precedence:
\* UserNotFound if no user has the id, whatever the other arguments;
\* otherwise UserAlreadyExists if the supplied email differs from the user's
\* and another user owns it, even if the phone number or the email is
\* malformed; otherwise a validation error if the supplied email or phone
\* number is malformed; the update is written only when none of these occurs.
C25_UpdateErrorPrecedence ==
    req.op = "update_user_profile"
    => LET own == {r \in prev : r.id = req.user_id}
           taken == /\ req.email # None
                    /\ \E u \in own, o \in prev :
                        o.id # u.id /\ req.email # u.email /\ o.email = req.email
           malformed == \/ req.email # None /\ ~EmailRule(req.email)
                        \/ req.phone_number # None /\ ~PhoneRule(req.phone_number)
       IN  /\ resp.status = IF own = {} THEN "UserNotFound"
                            ELSE IF taken THEN "UserAlreadyExists"
                            ELSE IF malformed THEN "ValueError"
                            ELSE "ok"
           /\ resp.status # "ok" => users = prev

\* another user's email was supplied together with a malformed phone number
C25_Witness ==
    /\ req.op = "update_user_profile"
    /\ \E u \in prev, o \in prev :
        u.id = req.user_id /\ o.id # u.id /\ o.email = req.email
    /\ req.phone_number = P_zero
    /\ resp.status = "UserAlreadyExists"

\* C26: a request's session is committed if and only if its body returned
\* without raising, otherwise it is rolled back and the exception goes on to the
\* caller; in both cases it is closed exactly once, after the commit or the
\* rollback; nothing is persisted before the commit, and what a body flushed
\* before it raised is not persisted.
C26_SessionCommitsIffBodyReturned ==
    \A p \in Procs :
        LET s == procs[p]
        IN  /\ s.pc = "yielded" => s.log = <<>> /\ users = s.seen
            /\ s.pc \in {"returned", "raised"}
                => /\ s.log = <<>>
                   /\ users = s.seen
                   /\ (s.pc = "returned") <=> (s.resp.status = "ok")
            /\ s.pc = "committed"
                => s.log = <<"commit">> /\ s.resp.status = "ok" /\ users = s.db
            /\ s.pc = "rolled_back"
                => s.log = <<"rollback">> /\ s.resp.status # "ok" /\ users = s.seen
            /\ s.pc = "closed"
                => /\ s.log = IF s.resp.status = "ok" THEN <<"commit", "close">>
                              ELSE <<"rollback", "close">>
                   /\ users = IF s.resp.status = "ok" THEN s.db ELSE s.seen

\* A body flushed a write and then raised; its session was rolled back and
\* closed, and the table is the one the request found.
C26_Witness ==
    \E p \in Procs :
        /\ procs[p].pc = "closed"
        /\ procs[p].resp.status = "ValueError"
        /\ procs[p].db # procs[p].seen
        /\ procs[p].seen # {}
        /\ users = procs[p].seen

\* C27: every response of a user endpoint carries the status fixed for its
\* outcome: 404 for UserNotFound, 409 for UserAlreadyExists, 400 for a
\* ValueError, 201 for a successful create and 200 for a successful get, update
\* or list.
C27_OutcomesHaveFixedStatus ==
    req.op \in {"create_user", "get_user", "update_user_profile", "list_users"}
    => /\ resp.status = "UserNotFound" => resp.http = 404
       /\ resp.status = "UserAlreadyExists" => resp.http = 409
       /\ resp.status = "ValueError" => resp.http = 400
       /\ resp.status = "ok" => resp.http = IF req.op = "create_user" THEN 201 ELSE 200

\* An update with the email of another user is answered 409.
C27_Witness ==
    /\ req.op = "update_user_profile"
    /\ \E o \in prev : o.id # req.user_id /\ o.email = req.email
    /\ resp.status = "UserAlreadyExists"
    /\ resp.http = 409

\* C28: the list endpoint calls the service exactly when limit (20 when
\* absent) is from 1 to 100 and offset (0 when absent) is not negative, so the
\* service's range error never occurs; an accepted request is answered with its
\* limit and offset, at most limit users, and the number of stored users as
\* total.
C28_ListEndpointBoundsAndEcho ==
    req.op = "list_users"
    => LET lim == IF req.limit = {} THEN 20 ELSE CHOOSE v \in req.limit : TRUE
           off == IF req.offset = {} THEN 0 ELSE CHOOSE v \in req.offset : TRUE
           accepted == lim >= 1 /\ lim <= 100 /\ off >= 0
       IN  /\ resp.called <=> accepted
           /\ resp.status # "ValueError"
           /\ accepted
               => /\ resp.status = "ok"
                  /\ resp.limit = lim
                  /\ resp.offset = off
                  /\ Len(resp.users) <= lim
                  /\ resp.total = Cardinality(users)
                  /\ users = prev

\* A page shorter than the table: the limit is echoed, total counts every user.
C28_Witness ==
    /\ req.op = "list_users"
    /\ req.limit = {1}
    /\ req.offset = {}
    /\ resp.status = "ok"
    /\ Len(resp.users) = 1
    /\ resp.total = 2
    /\ resp.offset = 0

\* C29: in every state reached through create_user and update_user_profile,
\* every stored record maps back to a User: get_user, get_user_by_username and
\* list_users raise no validation error, and a ValueError of create_user or
\* update_user_profile is about a value of the request, a stored phone number
\* that was set to the empty string included.
C29_StoredRecordsMapBack ==
    /\ \A r \in users : _to_entity(r).err = NoError
    /\ \A user_id \in Ids : get_user(users, user_id).status # "ValueError"
    /\ \A username \in ProfileUsernames :
        get_user_by_username(users, username).status # "ValueError"
    /\ list_users(users, MaxLimit, 0).status = "ok"
    /\ req.op = "create_user" /\ resp.status = "ValueError"
        => \/ _EMAIL_REGEX(req.email) = FALSE
           \/ Truthy(req.phone_number) /\ ~_PHONE_REGEX(req.phone_number)
    /\ req.op = "update_user_profile" /\ resp.status = "ValueError"
        => \/ req.email # None /\ ~_EMAIL_REGEX(req.email)
           \/ Truthy(req.phone_number) /\ ~_PHONE_REGEX(req.phone_number)

\* An update has replaced a stored phone number by the empty string, and the
\* record is read back.
C29_Witness ==
    /\ req.op = "update_user_profile"
    /\ req.phone_number = <<>>
    /\ resp.status = "ok"
    /\ \E r \in users, o \in prev :
        /\ r.id = req.user_id
        /\ o.id = r.id
        /\ o.phone_number = P_min
        /\ r.phone_number = <<>>
        /\ get_user(users, r.id).status = "ok"
        /\ get_user(users, r.id).user.phone_number = <<>>

\* C30: the repository's update of a user whose id no stored record has raises
\* the error "not found", flushes nothing and leaves the table unchanged; an
\* update_user_profile call never ends with that error.
C30_UpdateOfAbsentIdFails ==
    \A p \in Procs :
        LET s == procs[p]
        IN  s.pc \in {"returned", "raised", "committed", "rolled_back", "closed"}
            => /\ s.req.op = "update" /\ get_by_id(s.seen, s.req.user.id) = {}
                   => /\ s.resp.status = "ValueError"
                      /\ s.resp.msg = Msg("User with ID not found", s.req.user.id)
                      /\ s.db = s.seen
                      /\ users = s.seen
               /\ s.req.op = "update_user_profile"
                   => ~(/\ s.resp.status = "ValueError"
                        /\ s.resp.msg.text = "User with ID not found")

\* The repository was asked to update a user that was never saved, while
\* another user is stored.
C30_Witness ==
    \E p \in Procs :
        /\ procs[p].pc = "closed"
        /\ procs[p].req.op = "update"
        /\ procs[p].seen # {}
        /\ get_by_id(procs[p].seen, procs[p].req.user.id) = {}
        /\ procs[p].resp.status = "ValueError"
        /\ procs[p].resp.msg.text = "User with ID not found"

====
